---- MODULE Spec2Model ----
(***************************************************************************)
(* Model of backend/app.py: the Flask detection service.                   *)
(*                                                                         *)
(*  - process_detection_results is a pure function of the detector output. *)
(*    It is exercised by SpecNorm, which feeds it detector outputs drawn   *)
(*    from a bounded set, one after the other.                             *)
(*  - the request handlers (detect_plastic, batch_detect, download_report) *)
(*    are exercised by Spec, which interleaves the steps of concurrent     *)
(*    requests over the shared upload and results directories.             *)
(*                                                                         *)
(* Confidences are kept in hundredths (30 stands for 0.30).                *)
(***************************************************************************)
EXTENDS Integers, Sequences, FiniteSets, TLC

(* ------------------------------ bounds -------------------------------- *)

\* largest number of boxes a detector output carries
MaxBoxes == 7

\* number of request slots served concurrently
NumReqs == 2

\* largest number of entries in the 'images' list of a batch request
MaxFiles == 2

(* --------------------------- detector output -------------------------- *)

\* confidence of the i-th detection, in hundredths
ConfAt(i) == 30 + 10 * (i % 7)

\* class index of the i-th detection
ClsAt(i) == i % 2

\* corner coordinates of the i-th detection
XyxyAt(i) == <<i, i, i + 10, i + 10>>

\* a tensor attribute of a Boxes object: absent (None) or an array
Absent == [present |-> FALSE, data |-> <<>>]

ConfArray(k) == [present |-> TRUE, data |-> [i \in 1..k |-> ConfAt(i)]]

ClsArray(k) == [present |-> TRUE, data |-> [i \in 1..k |-> ClsAt(i)]]

XyxyArray(k) == [present |-> TRUE, data |-> [i \in 1..k |-> XyxyAt(i)]]

\* lengths an attribute array may have next to a Boxes object of length n
ArrLens(n) == {0, n - 1, n, n + 1} \cap (0..MaxBoxes)

\* result.boxes is None
NoBoxes == [present |-> FALSE, len |-> 0, conf |-> Absent, cls |-> Absent, xyxy |-> Absent]

\* the Boxes objects of length n
BoxesOfLen(n) ==
    { [present |-> TRUE, len |-> n, conf |-> c, cls |-> k, xyxy |-> x] :
        c \in {Absent} \cup { ConfArray(l) : l \in ArrLens(n) },
        k \in {Absent} \cup { ClsArray(l) : l \in ArrLens(n) },
        x \in {Absent} \cup { XyxyArray(l) : l \in ArrLens(n) } }

\* what model.predict may return: an empty list, or a list whose first
\* result has boxes None or a Boxes object
RawResults ==
    {<<>>} \cup {<<[boxes |-> NoBoxes]>>}
           \cup { <<[boxes |-> b]>> : b \in UNION { BoxesOfLen(n) : n \in 0..MaxBoxes } }

(* --------------------- process_detection_results ---------------------- *)

RECURSIVE SumSeq(_)
SumSeq(s) == IF s = <<>> THEN 0 ELSE Head(s) + SumSeq(Tail(s))

\* round(num/den) to the nearest integer, ties to even, as Python's round
RoundHalfEven(num, den) ==
    LET q == num \div den
        r == num % den
    IN  IF 2 * r < den THEN q
        ELSE IF 2 * r > den THEN q + 1
        ELSE IF q % 2 = 0 THEN q ELSE q + 1

\* float(np.mean(confidences)) if len(confidences) > 0 else 0.0, then
\* round(avg_confidence, 2); the result is in hundredths
AvgConfidence(confidences) ==
    IF Len(confidences) > 0
    THEN RoundHalfEven(SumSeq(confidences), Len(confidences))
    ELSE 0

SeverityOffByOne(detections) ==
    IF detections >= 5 THEN "High" ELSE IF detections >= 1 THEN "Medium" ELSE "Low"

\* 'High' if detections > 5 else 'Medium' if detections > 1 else 'Low'
Severity(detections) ==
    IF detections > 5 THEN "High" ELSE IF detections > 1 THEN "Medium" ELSE "Low"

recommendationsSwapped ==
    [High   |-> "Immediate cleanup required - High plastic pollution detected",
     Medium |-> "Monitor area - Low level plastic pollution detected",
     Low    |-> "Cleanup recommended - Moderate plastic pollution found"]

\* the recommendations dictionary
recommendations ==
    [High   |-> "Immediate cleanup required - High plastic pollution detected",
     Medium |-> "Cleanup recommended - Moderate plastic pollution found",
     Low    |-> "Monitor area - Low level plastic pollution detected"]

\* the report returned when there is no result or no box
EmptyReport ==
    [detections |-> 0,
     confidence |-> 0,
     plastic_types |-> <<>>,
     bounding_boxes |-> <<>>,
     environmental_impact |->
        [severity |-> "Low", recommendation |-> "No plastic detected"]]

\* the loop building bounding_boxes: one entry per row of xyxy
BoundingBoxes(xyxy, confidences, class_names) ==
    [i \in 1..Len(xyxy) |->
        [x1 |-> xyxy[i][1], y1 |-> xyxy[i][2], x2 |-> xyxy[i][3], y2 |-> xyxy[i][4],
         confidence |-> IF i <= Len(confidences) THEN confidences[i] ELSE 0,
         class |-> IF i <= Len(class_names) THEN class_names[i] ELSE "plastic"]]

process_detection_results(results) ==
    IF Len(results) = 0 THEN EmptyReport
    ELSE LET boxes == results[1].boxes IN
      IF ~boxes.present \/ boxes.len = 0 THEN EmptyReport
      ELSE
        LET detections  == boxes.len
            confidences == IF boxes.conf.present THEN boxes.conf.data ELSE <<>>
            classes     == IF boxes.cls.present THEN boxes.cls.data ELSE <<>>
            xyxy        == IF boxes.xyxy.present THEN boxes.xyxy.data ELSE <<>>
            class_names == [i \in 1..Len(classes) |-> "plastic"]
            severity    == Severity(detections)
        IN  [detections |-> detections,
             confidence |-> AvgConfidence(confidences),
             plastic_types |-> IF Len(class_names) > 0 THEN <<"plastic">> ELSE <<>>,
             bounding_boxes |-> BoundingBoxes(xyxy, confidences, class_names),
             environmental_impact |->
                [severity |-> severity, recommendation |-> recommendations[severity]]]

(* ------------------------------- state -------------------------------- *)

VARIABLES
    results,        \* SpecNorm: the detector output being normalised
    detection_data, \* SpecNorm: <<>> or <<the report of results>>
    last,           \* SpecNorm: <<>> or <<count and impact of the previous report>>
    model,          \* the global model handle: "None" or "Loaded"
    nextId,         \* the number of identifiers uuid.uuid4() has produced
    upload_folder,  \* UPLOAD_FOLDER: staged path -> the image stored there
    results_folder, \* RESULTS_FOLDER: run directory -> the annotated images in it
    report_files,   \* RESULTS_FOLDER: the report files written by download_report
    req             \* per request slot: the request, the handler's locals and position

normVars == <<results, detection_data, last>>

apiVars == <<model, nextId, upload_folder, results_folder, report_files, req>>

vars == <<results, detection_data, last, model, nextId, upload_folder,
          results_folder, report_files, req>>

Reqs == 1..NumReqs

(* ------------------------- requests and responses --------------------- *)

\* the filenames a client may send; "" is an entry without a file
Filenames == {"", "a.jpg"}

\* the 'confidence' form field: absent, or text that is no number
Confidences == {"absent", "abc"}

\* the file_id path segments a client may ask a report for
ReportIds == {"r0"}

\* the 'images' lists of a batch request
FileLists == UNION { [1..k -> Filenames] : k \in 0..MaxFiles }

\* a slot no request has arrived on yet
Idle ==
    [kind |-> "none", pc |-> "idle", has_image |-> FALSE, filename |-> "",
     confidence |-> "absent", files |-> <<>>, report_id |-> "",
     uuid |-> -1, i |-> 0, results |-> <<>>, detection_data |-> <<>>,
     annotated_image_b64 |-> <<>>, batch_results |-> <<>>,
     steps |-> <<>>, raised |-> <<>>, response |-> <<>>]

\* the image bytes of the i-th file of request r (i = 0 for /api/detect)
Image(r, i) == <<r, i>>

\* return jsonify(body), status
Resp(status, body) == [status |-> status, body |-> body]

UPLOAD_FOLDER == "uploads"

RESULTS_FOLDER == "results"

\* os.path.join(UPLOAD_FOLDER, f"{file_id}.jpg")
filepath(file_id) == <<UPLOAD_FOLDER, file_id, ".jpg">>

\* os.path.join(RESULTS_FOLDER, file_id)
result_dir(file_id) == <<RESULTS_FOLDER, file_id>>

\* file_id = str(uuid.uuid4()) in detect_plastic
SingleFileId(u) == <<u>>

\* file_id = f"{batch_id}_{i}" in batch_detect; a uuid holds no underscore,
\* so it differs from every str(uuid.uuid4())
BatchFileId(batch_id, i) == <<batch_id, i>>

uuid4Stale == IF nextId > 0 THEN nextId - 1 ELSE nextId

\* uuid.uuid4(): identifiers are pairwise distinct
uuid4 == nextId

\* float(request.form.get('confidence', 0.25)), in hundredths; <<>> when
\* float() raises ValueError
ParseConfidence(c) ==
    IF c = "absent" THEN <<25>>
    ELSE IF c = "0.5" THEN <<50>>
    ELSE <<>>

\* the objects the detector sees in an image
ObjectsIn(image) == 1 + ((2 * image[1] + image[2]) % 3)

RECURSIVE Confident(_, _, _)
\* the detections lo..hi whose confidence reaches the threshold, ascending
Confident(lo, hi, conf) ==
    IF lo > hi THEN <<>>
    ELSE (IF ConfAt(lo) >= conf THEN <<lo>> ELSE <<>>) \o Confident(lo + 1, hi, conf)

\* model.predict(source, conf=...): the detections of the image whose
\* confidence reaches the threshold, every attribute with one row per box
Predict(image, conf) ==
    LET idx == Confident(1, ObjectsIn(image), conf)
    IN  <<[boxes |->
            [present |-> TRUE, len |-> Len(idx),
             conf |-> [present |-> TRUE, data |-> [j \in 1..Len(idx) |-> ConfAt(idx[j])]],
             cls  |-> [present |-> TRUE, data |-> [j \in 1..Len(idx) |-> ClsAt(idx[j])]],
             xyxy |-> [present |-> TRUE, data |-> [j \in 1..Len(idx) |-> XyxyAt(idx[j])]]]]>>

\* the annotated rendering of an image that predict(save=True) writes
Annotated(image) == [annotated |-> image]

\* base64.b64encode(img_file.read()).decode('utf-8')
b64encode(bytes) == [b64 |-> bytes]

\* f with key k bound to v
Put(f, k, v) == [x \in DOMAIN f \cup {k} |-> IF x = k THEN v ELSE f[x]]

\* f without key k
Drop(f, k) == [x \in DOMAIN f \ {k} |-> f[x]]

\* model.predict(..., save=True, project=RESULTS_FOLDER, name=file_id,
\* exist_ok=True): the annotated image is added to the run directory
SaveAnnotated(folder, file_id, image) ==
    LET d == result_dir(file_id)
    IN  Put(folder, d, (IF d \in DOMAIN folder THEN folder[d] ELSE {}) \cup {Annotated(image)})

(* --------------------------- detect_plastic --------------------------- *)

detect_validate_image_first(m, q) ==
    IF ~q.has_image THEN <<Resp(400, [error |-> "No image file provided"])>>
    ELSE IF m = "None" THEN <<Resp(500, [error |-> "Model not loaded"])>>
    ELSE IF q.filename = "" THEN <<Resp(400, [error |-> "No image file selected"])>>
    ELSE <<>>

detect_validate_no_model_check(m, q) ==
    IF ~q.has_image THEN <<Resp(400, [error |-> "No image file provided"])>>
    ELSE IF q.filename = "" THEN <<Resp(400, [error |-> "No image file selected"])>>
    ELSE <<>>

\* the early returns of detect_plastic, in the order of the code: <<>> when
\* the request passes them
detect_validate(m, q) ==
    IF m = "None" THEN <<Resp(500, [error |-> "Model not loaded"])>>
    ELSE IF ~q.has_image THEN <<Resp(400, [error |-> "No image file provided"])>>
    ELSE IF q.filename = "" THEN <<Resp(400, [error |-> "No image file selected"])>>
    ELSE <<>>

detect_except_narrow(cause) ==
    IF cause = "ValueError"
    THEN Resp(500, [error |-> <<"Detection failed: ", cause>>])
    ELSE Resp(500, [html |-> "Internal Server Error"])

\* except Exception as e: return jsonify({'error': f'Detection failed: ...'}), 500
detect_except(cause) == Resp(500, [error |-> <<"Detection failed: ", cause>>])

\* the handler's locals go out of scope when it returns
Discard(q) ==
    [q EXCEPT !.results = <<>>, !.detection_data = <<>>,
              !.annotated_image_b64 = <<>>, !.batch_results = <<>>]

\* the slot after the handler returned resp
Return(q, resp) == [Discard(q) EXCEPT !.pc = "done", !.response = <<resp>>]

\* the slot after the statement at its position raised cause
Raise(q, resp, cause) ==
    [Discard(q) EXCEPT !.pc = "done", !.raised = <<cause>>, !.response = <<resp>>]

\* the slot after it executed the step named s on file i
Did(q, s) == [q EXCEPT !.steps = Append(@, <<s, q.i>>)]

\* a request may arrive on slot r: the slots are taken in order
Free(r) == req[r].pc = "idle" /\ (IF r = 1 THEN TRUE ELSE req[r - 1].pc # "idle")

\* the POST /api/detect requests: without an 'image' field, or with one
DetectRequests ==
    {[Idle EXCEPT !.kind = "detect"]} \cup
    {[Idle EXCEPT !.kind = "detect", !.has_image = TRUE]} \cup
    {[Idle EXCEPT !.kind = "detect", !.has_image = TRUE, !.filename = f, !.confidence = c] :
        f \in Filenames \ {""}, c \in Confidences}

\* a request arrives; lines 130-146: the early returns, then
\* file_id = str(uuid.uuid4())
DetectStart(r) ==
    /\ Free(r)
    /\ \E q \in DetectRequests :
         LET v == detect_validate(model, q)
         IN  IF v # <<>>
             THEN /\ req' = [req EXCEPT ![r] = Return(q, v[1])]
                  /\ UNCHANGED nextId
             ELSE /\ req' = [req EXCEPT ![r] = [q EXCEPT !.uuid = uuid4, !.pc = "save"]]
                  /\ nextId' = nextId + 1
    /\ UNCHANGED <<model, upload_folder, results_folder, report_files>>
    /\ UNCHANGED normVars

\* line 149: file.save(filepath)
DetectSave(r) ==
    /\ req[r].kind = "detect" /\ req[r].pc = "save"
    /\ \E ok \in BOOLEAN :
         IF ok
         THEN /\ upload_folder' =
                    Put(upload_folder, filepath(SingleFileId(req[r].uuid)), Image(r, 0))
              /\ req' = [req EXCEPT ![r] = [Did(@, "save") EXCEPT !.pc = "predict"]]
         ELSE /\ req' = [req EXCEPT ![r] = Raise(Did(@, "save"), detect_except("OSError"), "OSError")]
              /\ UNCHANGED upload_folder
    /\ UNCHANGED <<model, nextId, results_folder, report_files>>
    /\ UNCHANGED normVars

\* lines 152-162: the confidence field is parsed, then model.predict reads
\* the staged file and saves the annotated image under results/<file_id>
DetectPredict(r) ==
    /\ req[r].kind = "detect" /\ req[r].pc = "predict"
    /\ LET file_id == SingleFileId(req[r].uuid)
           conf    == ParseConfidence(req[r].confidence)
       IN  IF conf = <<>>
           THEN /\ req' = [req EXCEPT ![r] =
                            Raise(Did(@, "confidence"), detect_except("ValueError"), "ValueError")]
                /\ UNCHANGED results_folder
           ELSE \E ok \in BOOLEAN :
                  IF ok /\ filepath(file_id) \in DOMAIN upload_folder
                  THEN LET source == upload_folder[filepath(file_id)]
                       IN  /\ results_folder' = SaveAnnotated(results_folder, file_id, source)
                           /\ req' = [req EXCEPT ![r] =
                                 [Did(Did(@, "confidence"), "predict") EXCEPT
                                     !.results = <<Predict(source, conf[1])>>,
                                     !.pc = "process"]]
                  ELSE /\ req' = [req EXCEPT ![r] =
                                   Raise(Did(Did(@, "confidence"), "predict"),
                                         detect_except("PredictError"), "PredictError")]
                       /\ UNCHANGED results_folder
    /\ UNCHANGED <<model, nextId, upload_folder, report_files>>
    /\ UNCHANGED normVars

\* lines 165-181: the report is built, the first image file under
\* results/<file_id> is located and read
DetectProcess(r) ==
    /\ req[r].kind = "detect" /\ req[r].pc = "process"
    /\ LET d == result_dir(SingleFileId(req[r].uuid))
       IN  \E ok \in BOOLEAN :
             IF ok
             THEN \E f \in (IF d \in DOMAIN results_folder THEN results_folder[d] ELSE {<<>>}) :
                    req' = [req EXCEPT ![r] =
                        [Did(@, "process") EXCEPT
                            !.detection_data = <<process_detection_results(req[r].results[1])>>,
                            !.annotated_image_b64 = IF f = <<>> THEN <<>> ELSE <<b64encode(f)>>,
                            !.pc = "cleanup"]]
             ELSE req' = [req EXCEPT ![r] =
                        Raise(Did(@, "process"), detect_except("ProcessError"), "ProcessError")]
    /\ UNCHANGED <<model, nextId, upload_folder, results_folder, report_files>>
    /\ UNCHANGED normVars

\* lines 184-197: the response is assembled, the staged file removed if it
\* exists, the response returned
DetectCleanup(r) ==
    /\ req[r].kind = "detect" /\ req[r].pc = "cleanup"
    /\ LET file_id == SingleFileId(req[r].uuid)
       IN  /\ upload_folder' = Drop(upload_folder, filepath(file_id))
           /\ req' = [req EXCEPT ![r] =
                Return(Did(@, "cleanup"),
                       Resp(200, [success |-> TRUE, file_id |-> file_id,
                                  filename |-> req[r].filename,
                                  detection_results |-> req[r].detection_data[1],
                                  annotated_image |-> req[r].annotated_image_b64]))]
    /\ UNCHANGED <<model, nextId, results_folder, report_files>>
    /\ UNCHANGED normVars

(* ---------------------------- batch_detect ---------------------------- *)

\* the early returns of batch_detect: <<>> when the request passes them
batch_validate(m, q) ==
    IF m = "None" THEN <<Resp(500, [error |-> "Model not loaded"])>>
    ELSE IF q.files = <<>> THEN <<Resp(400, [error |-> "No image files provided"])>>
    ELSE <<>>

batch_except_partial(batch_results, cause) ==
    Resp(500, [error |-> <<"Batch processing failed: ", cause>>,
               processed_images |-> Len(batch_results),
               results |-> batch_results])

\* except Exception as e: return jsonify({'error': f'Batch processing
\* failed: ...'}), 500; batch_results is dropped
batch_except(batch_results, cause) ==
    Resp(500, [error |-> <<"Batch processing failed: ", cause>>])

PrependResult(batch_results, entry) == <<entry>> \o batch_results

\* batch_results.append(entry)
AppendResult(batch_results, entry) == Append(batch_results, entry)

RECURSIVE NextFile(_, _)
\* for i, file in enumerate(files): if file.filename == '': continue
\* the index (from 0) of the first entry at or after i with a filename
NextFile(files, i) ==
    IF i >= Len(files) THEN Len(files)
    ELSE IF files[i + 1] = "" THEN NextFile(files, i + 1)
    ELSE i

\* the loop of batch_detect resumed at entry i: the next entry with a
\* filename is taken up, or the response of lines 282-288 is returned
Resume(q, i) ==
    LET j == NextFile(q.files, i)
    IN  IF j < Len(q.files)
        THEN [q EXCEPT !.i = j, !.pc = "save"]
        ELSE Return([q EXCEPT !.i = j],
                    Resp(200, [success |-> TRUE, batch_id |-> q.uuid,
                               processed_images |-> Len(q.batch_results),
                               results |-> q.batch_results]))

\* the POST /api/batch-detect requests
BatchRequests == {[Idle EXCEPT !.kind = "batch", !.files = fs] : fs \in FileLists}

\* a request arrives; lines 240-250: the early returns, then
\* batch_id = str(uuid.uuid4()) and the loop is entered
BatchStart(r) ==
    /\ Free(r)
    /\ \E q \in BatchRequests :
         LET v == batch_validate(model, q)
         IN  IF v # <<>>
             THEN /\ req' = [req EXCEPT ![r] = Return(q, v[1])]
                  /\ UNCHANGED nextId
             ELSE /\ req' = [req EXCEPT ![r] = Resume([q EXCEPT !.uuid = uuid4], 0)]
                  /\ nextId' = nextId + 1
    /\ UNCHANGED <<model, upload_folder, results_folder, report_files>>
    /\ UNCHANGED normVars

\* line 258: file.save(filepath)
BatchSave(r) ==
    /\ req[r].kind = "batch" /\ req[r].pc = "save"
    /\ \E ok \in BOOLEAN :
         IF ok
         THEN /\ upload_folder' =
                    Put(upload_folder, filepath(BatchFileId(req[r].uuid, req[r].i)),
                        Image(r, req[r].i))
              /\ req' = [req EXCEPT ![r] = [Did(@, "save") EXCEPT !.pc = "predict"]]
         ELSE /\ req' = [req EXCEPT ![r] =
                    Raise(Did(@, "save"), batch_except(req[r].batch_results, "OSError"), "OSError")]
              /\ UNCHANGED upload_folder
    /\ UNCHANGED <<model, nextId, results_folder, report_files>>
    /\ UNCHANGED normVars

\* lines 261-268: model.predict with conf=0.25
BatchPredict(r) ==
    /\ req[r].kind = "batch" /\ req[r].pc = "predict"
    /\ LET file_id == BatchFileId(req[r].uuid, req[r].i)
       IN  \E ok \in BOOLEAN :
             IF ok /\ filepath(file_id) \in DOMAIN upload_folder
             THEN LET source == upload_folder[filepath(file_id)]
                  IN  /\ results_folder' = SaveAnnotated(results_folder, file_id, source)
                      /\ req' = [req EXCEPT ![r] =
                            [Did(@, "predict") EXCEPT
                                !.results = <<Predict(source, 25)>>, !.pc = "process"]]
             ELSE /\ req' = [req EXCEPT ![r] =
                       Raise(Did(@, "predict"),
                             batch_except(req[r].batch_results, "PredictError"), "PredictError")]
                  /\ UNCHANGED results_folder
    /\ UNCHANGED <<model, nextId, upload_folder, report_files>>
    /\ UNCHANGED normVars

\* lines 270-280: the report is built and appended to batch_results, the
\* staged file is removed if it exists, and the loop goes on
BatchProcess(r) ==
    /\ req[r].kind = "batch" /\ req[r].pc = "process"
    /\ \E ok \in BOOLEAN :
         IF ok
         THEN /\ upload_folder' =
                    Drop(upload_folder, filepath(BatchFileId(req[r].uuid, req[r].i)))
              /\ req' = [req EXCEPT ![r] =
                    Resume([Did(Did(@, "process"), "cleanup") EXCEPT
                               !.batch_results = AppendResult(@,
                                   [filename |-> req[r].files[req[r].i + 1],
                                    file_id |-> BatchFileId(req[r].uuid, req[r].i),
                                    results |-> process_detection_results(req[r].results[1])])],
                           req[r].i + 1)]
         ELSE /\ req' = [req EXCEPT ![r] =
                    Raise(Did(@, "process"),
                          batch_except(req[r].batch_results, "ProcessError"), "ProcessError")]
              /\ UNCHANGED upload_folder
    /\ UNCHANGED <<model, nextId, results_folder, report_files>>
    /\ UNCHANGED normVars

(* --------------------------- download_report -------------------------- *)

\* f"plastic_detection_report_{file_id}.json"
report_filename(file_id) == <<"plastic_detection_report_", file_id, ".json">>

\* except Exception as e: return jsonify({'error': f'Report generation
\* failed: ...'}), 500
report_except(cause) == Resp(500, [error |-> <<"Report generation failed: ", cause>>])

\* the GET /api/download-report/<file_id> requests
ReportRequests == {[Idle EXCEPT !.kind = "report", !.report_id = f] : f \in ReportIds}

\* a request arrives; lines 209-229: the placeholder report is written to
\* the results folder
ReportWrite(r) ==
    /\ Free(r)
    /\ \E q \in ReportRequests, ok \in BOOLEAN :
         IF ok
         THEN /\ report_files' = report_files \cup {report_filename(q.report_id)}
              /\ req' = [req EXCEPT ![r] = [Did(q, "write") EXCEPT !.pc = "send"]]
         ELSE /\ req' = [req EXCEPT ![r] = Raise(Did(q, "write"), report_except("OSError"), "OSError")]
              /\ UNCHANGED report_files
    /\ UNCHANGED <<model, nextId, upload_folder, results_folder>>
    /\ UNCHANGED normVars

\* line 231: send_file(report_path, as_attachment=True, ...)
ReportSend(r) ==
    /\ req[r].kind = "report" /\ req[r].pc = "send"
    /\ \E ok \in BOOLEAN :
         IF ok /\ report_filename(req[r].report_id) \in report_files
         THEN req' = [req EXCEPT ![r] =
                Return(Did(@, "send"),
                       Resp(200, [attachment |-> report_filename(req[r].report_id),
                                  file_id |-> req[r].report_id,
                                  total_detections |-> 0]))]
         ELSE req' = [req EXCEPT ![r] = Raise(Did(@, "send"), report_except("OSError"), "OSError")]
    /\ UNCHANGED <<model, nextId, upload_folder, results_folder, report_files>>
    /\ UNCHANGED normVars

(* ------------------------------ the service --------------------------- *)

\* load_model(), called once before app.run: the trained model or the
\* fallback is bound to the global; when YOLO raises the global stays None
load_model ==
    /\ model = "None"
    /\ \A r \in Reqs : req[r].pc = "idle"
    /\ model' = "Loaded"
    /\ UNCHANGED <<nextId, upload_folder, results_folder, report_files, req>>
    /\ UNCHANGED normVars

Init ==
    /\ model = "None"
    /\ nextId = 0
    /\ upload_folder = <<>>
    /\ results_folder = <<>>
    /\ report_files = {}
    /\ req = [r \in Reqs |-> Idle]
    /\ results = <<>>
    /\ detection_data = <<>>
    /\ last = <<>>

Next ==
    \/ load_model
    \/ \E r \in Reqs :
        \/ DetectStart(r)
        \/ DetectSave(r)
        \/ DetectPredict(r)
        \/ DetectProcess(r)
        \/ DetectCleanup(r)
        \/ BatchStart(r)
        \/ BatchSave(r)
        \/ BatchPredict(r)
        \/ BatchProcess(r)
        \/ ReportWrite(r)
        \/ ReportSend(r)

Spec == Init /\ [][Next]_vars

(* ------------------- SpecNorm: feeding the normaliser ------------------ *)

InitNorm ==
    /\ results \in RawResults
    /\ detection_data = <<>>
    /\ last = <<>>
    /\ model = "None"
    /\ nextId = 0
    /\ upload_folder = <<>>
    /\ results_folder = <<>>
    /\ report_files = {}
    /\ req = [r \in Reqs |-> Idle]

\* detection_data = process_detection_results(results)
Normalize ==
    /\ detection_data = <<>>
    /\ detection_data' = <<process_detection_results(results)>>
    /\ UNCHANGED <<results, last>>
    /\ UNCHANGED apiVars

\* the next detector output arrives; the previous report is remembered by
\* its count and its environmental impact
NextResults ==
    /\ detection_data # <<>>
    /\ \E r \in RawResults : results' = r
    /\ last' = <<[detections |-> detection_data[1].detections,
                  environmental_impact |-> detection_data[1].environmental_impact]>>
    /\ detection_data' = <<>>
    /\ UNCHANGED apiVars

NextNorm == Normalize \/ NextResults

SpecNorm == InitNorm /\ [][NextNorm]_vars

(* ============================== claims =============================== *)

\* the number of detections a detector output carries: none when the list
\* is empty or boxes is None
RawCount(res) ==
    IF Len(res) = 0 THEN 0
    ELSE IF ~res[1].boxes.present THEN 0
    ELSE res[1].boxes.len

Impact == detection_data[1].environmental_impact

(* C2: the severity of every report follows from the detection count c     *)
(* alone: c > 5 gives High, 1 < c <= 5 gives Medium, c <= 1 (zero or       *)
(* absent detections included) gives Low.                                  *)
C2_SeverityFromCount ==
    detection_data # <<>> =>
        LET c == RawCount(results)
        IN  /\ c > 5 => Impact.severity = "High"
            /\ (c > 1 /\ c <= 5) => Impact.severity = "Medium"
            /\ c <= 1 => Impact.severity = "Low"
            /\ c = 1 => Impact.severity = "Low"
            /\ c \in {2, 5} => Impact.severity = "Medium"
            /\ c = 6 => Impact.severity = "High"

\* a report of six detections, with attribute arrays shorter than the count
C2_Witness ==
    /\ detection_data # <<>>
    /\ RawCount(results) = 6
    /\ results[1].boxes.xyxy.present /\ Len(results[1].boxes.xyxy.data) = 5
    /\ Impact.severity = "High"

(* C3: in every report the 'detections' count equals the length of         *)
(* 'bounding_boxes', also when the box-corner, confidence or class arrays  *)
(* are absent or differ in length from the box count.                      *)
C3_CountEqualsBoxes ==
    detection_data # <<>> =>
        detection_data[1].detections = Len(detection_data[1].bounding_boxes)

ThreeLiterals ==
    {"Immediate cleanup required - High plastic pollution detected",
     "Cleanup recommended - Moderate plastic pollution found",
     "Monitor area - Low level plastic pollution detected"}

(* C7 as stated: the recommendation is fixed per severity level: two       *)
(* reports of the same severity carry the same recommendation, and only    *)
(* three recommendation literals occur.                                    *)
C7_FixedPerSeverity ==
    detection_data # <<>> =>
        /\ Impact.recommendation \in ThreeLiterals
        /\ (last # <<>> /\ last[1].environmental_impact.severity = Impact.severity)
              => last[1].environmental_impact.recommendation = Impact.recommendation

(* C7 amended: the recommendation is fixed per severity level among the    *)
(* reports with at least one detection (three literals); a report without  *)
(* detections has severity Low and the fourth literal "No plastic          *)
(* detected". Two reports of the same severity that are both empty or both *)
(* non-empty carry the same recommendation.                                *)
C7_FixedPerSeverityAndEmptiness ==
    detection_data # <<>> =>
        LET n == detection_data[1].detections
        IN  /\ n = 0 => /\ Impact.severity = "Low"
                        /\ Impact.recommendation = "No plastic detected"
            /\ (n > 0 /\ Impact.severity = "High") => Impact.recommendation =
                  "Immediate cleanup required - High plastic pollution detected"
            /\ (n > 0 /\ Impact.severity = "Medium") => Impact.recommendation =
                  "Cleanup recommended - Moderate plastic pollution found"
            /\ (n > 0 /\ Impact.severity = "Low") => Impact.recommendation =
                  "Monitor area - Low level plastic pollution detected"
            /\ (/\ last # <<>>
                /\ last[1].environmental_impact.severity = Impact.severity
                /\ (last[1].detections = 0) = (n = 0))
                  => last[1].environmental_impact.recommendation = Impact.recommendation

\* two Low reports in a row, the first without detections, the second with one
C7_Witness ==
    /\ detection_data # <<>> /\ last # <<>>
    /\ last[1].detections = 0 /\ last[1].environmental_impact.severity = "Low"
    /\ detection_data[1].detections = 1 /\ Impact.severity = "Low"
    /\ last[1].environmental_impact.recommendation # Impact.recommendation

\* the file.save of q's handler succeeded
Staged(q) ==
    \E k \in 1..Len(q.steps) :
        q.steps[k][1] = "save" /\ (k < Len(q.steps) \/ q.raised = <<>>)

(* C1: once a single-image request that staged its input file has          *)
(* completed, on the success path or on any failure path, the staged file  *)
(* is absent from the upload directory.                                    *)
C1_StagedFileRemoved ==
    \A r \in Reqs :
        (req[r].kind = "detect" /\ req[r].pc = "done" /\ Staged(req[r]))
            => filepath(<<req[r].uuid>>) \notin DOMAIN upload_folder

NoImage400 == [status |-> 400, body |-> [error |-> "No image file provided"]]

NotLoaded500 == [status |-> 500, body |-> [error |-> "Model not loaded"]]

(* C4 as stated: a single-image request without an 'image' field is        *)
(* answered 400 "No image file provided", whatever the model handle.       *)
C4_NoImageAlways400 ==
    \A r \in Reqs :
        (req[r].kind = "detect" /\ req[r].pc = "done" /\ ~req[r].has_image)
            => req[r].response = <<NoImage400>>

(* C4 amended: a single-image request without an 'image' field is answered *)
(* 400 "No image file provided" when the model handle is loaded, and 500   *)
(* "Model not loaded" when it is not.                                      *)
C4_NoImage400WhenLoaded ==
    \A r \in Reqs :
        (req[r].kind = "detect" /\ req[r].pc = "done" /\ ~req[r].has_image)
            => /\ model = "Loaded" => req[r].response = <<NoImage400>>
               /\ model = "None" => req[r].response = <<NotLoaded500>>

\* with the model loaded, a request without an image was answered 400
C4_Witness ==
    \E r \in Reqs :
        /\ req[r].kind = "detect" /\ req[r].pc = "done" /\ ~req[r].has_image
        /\ model = "Loaded" /\ req[r].response = <<NoImage400>>

RECURSIVE NamedFrom(_, _)
\* the positions (from 0) at or after i of the entries with a filename
NamedFrom(files, i) ==
    IF i >= Len(files) THEN <<>>
    ELSE (IF files[i + 1] # "" THEN <<i>> ELSE <<>>) \o NamedFrom(files, i + 1)

(* C5: in every successful batch response, processed_images is the number  *)
(* of entries with a non-empty filename, and results lists exactly those   *)
(* entries, in submission order.                                           *)
C5_BatchSkipsAndOrders ==
    \A r \in Reqs :
        (req[r].kind = "batch" /\ req[r].pc = "done" /\ req[r].response[1].status = 200)
            => LET named == NamedFrom(req[r].files, 0)
                   body  == req[r].response[1].body
               IN  /\ body.processed_images = Len(named)
                   /\ Len(body.results) = Len(named)
                   /\ \A k \in 1..Len(named) :
                        /\ body.results[k].file_id = <<req[r].uuid, named[k]>>
                        /\ body.results[k].filename = req[r].files[named[k] + 1]
                   /\ \A k \in 1..Len(req[r].steps) :
                        req[r].files[req[r].steps[k][2] + 1] # ""

\* one batch skipped its first entry, the other processed two in order
C5_Witness ==
    \E r1, r2 \in Reqs :
        /\ req[r1].kind = "batch" /\ req[r1].pc = "done"
        /\ req[r1].files = <<"", "a.jpg">>
        /\ req[r1].response[1].status = 200
        /\ req[r1].response[1].body.processed_images = 1
        /\ req[r2].kind = "batch" /\ req[r2].pc = "done"
        /\ req[r2].files = <<"a.jpg", "a.jpg">>
        /\ req[r2].response[1].status = 200
        /\ req[r2].response[1].body.processed_images = 2

(* C6: when one image of a batch fails, the request is answered with one   *)
(* 500 error "Batch processing failed: <cause>" that carries no per-image  *)
(* results, even after earlier images succeeded, and no later image is     *)
(* processed.                                                              *)
C6_BatchFailsWhole ==
    \A r \in Reqs :
        (req[r].kind = "batch" /\ req[r].pc = "done" /\ req[r].raised # <<>>)
            => /\ req[r].response[1].status = 500
               /\ DOMAIN req[r].response[1].body = {"error"}
               /\ req[r].response[1].body.error =
                      <<"Batch processing failed: ", req[r].raised[1]>>
               /\ \A k \in 1..Len(req[r].steps) : req[r].steps[k][2] <= req[r].i
               /\ \A j \in (req[r].i + 1)..MaxFiles :
                      /\ filepath(<<req[r].uuid, j>>) \notin DOMAIN upload_folder
                      /\ result_dir(<<req[r].uuid, j>>) \notin DOMAIN results_folder

\* one batch failed on its second image after the first succeeded, another
\* failed on its first image with a second one waiting
C6_Witness ==
    \E r1, r2 \in Reqs :
        /\ req[r1].kind = "batch" /\ req[r1].pc = "done" /\ req[r1].raised # <<>>
        /\ req[r1].i = 1
        /\ \E k \in 1..Len(req[r1].steps) : req[r1].steps[k] = <<"cleanup", 0>>
        /\ req[r2].kind = "batch" /\ req[r2].pc = "done" /\ req[r2].raised # <<>>
        /\ req[r2].i = 0 /\ req[r2].files = <<"a.jpg", "a.jpg">>

\* q is at a step that works on a staged file
InFlight(q) == q.kind \in {"detect", "batch"} /\ q.pc \in {"save", "predict", "process", "cleanup"}

\* the identifier the step of q works under
CurrentFileId(q) == IF q.kind = "detect" THEN <<q.uuid>> ELSE <<q.uuid, q.i>>

(* C8: with pairwise distinct generated identifiers, under every           *)
(* interleaving of single-image and batch requests no two in-flight        *)
(* image-processing steps use the same staged path or the same results     *)
(* directory, and a request finds, reads and removes only its own          *)
(* artifacts.                                                              *)
C8_NoArtifactCollision ==
    /\ \A r1, r2 \in Reqs :
        (r1 # r2 /\ InFlight(req[r1]) /\ InFlight(req[r2]))
            => /\ filepath(CurrentFileId(req[r1])) # filepath(CurrentFileId(req[r2]))
               /\ result_dir(CurrentFileId(req[r1])) # result_dir(CurrentFileId(req[r2]))
    /\ \A r \in Reqs :
        (InFlight(req[r]) /\ req[r].pc # "save")
            => /\ filepath(CurrentFileId(req[r])) \in DOMAIN upload_folder
               /\ upload_folder[filepath(CurrentFileId(req[r]))] = <<r, req[r].i>>
    /\ \A r \in Reqs :
        (InFlight(req[r]) /\ req[r].pc \in {"process", "cleanup"})
            => /\ result_dir(CurrentFileId(req[r])) \in DOMAIN results_folder
               /\ results_folder[result_dir(CurrentFileId(req[r]))] =
                      {[annotated |-> <<r, req[r].i>>]}
    /\ \A r \in Reqs :
        (req[r].kind = "detect" /\ req[r].pc = "done" /\ req[r].response[1].status = 200)
            => req[r].response[1].body.annotated_image = <<[b64 |-> [annotated |-> <<r, 0>>]]>>

\* two single-image requests, or one and a batch, are past staging at once
C8_Witness ==
    \E r1, r2 \in Reqs :
        /\ r1 # r2
        /\ req[r1].kind = "detect" /\ req[r1].pc = "process"
        /\ req[r2].pc = "process"

\* no entry of s occurs twice
NoDuplicates(s) == \A j, k \in 1..Len(s) : j < k => s[j] # s[k]

(* C9: every failure inside detect, batch-detect or download-report is     *)
(* answered with exactly one JSON error envelope {error: <message>} with   *)
(* status 400 or 500; no exception escapes and no step of the pipeline is  *)
(* executed twice.                                                         *)
C9_OneEnvelopeNoRetry ==
    \A r \in Reqs :
        /\ (req[r].pc = "done") = (req[r].response # <<>>)
        /\ Len(req[r].response) <= 1
        /\ req[r].raised # <<>> =>
              /\ req[r].pc = "done"
              /\ req[r].response[1].status = 500
              /\ DOMAIN req[r].response[1].body = {"error"}
              /\ req[r].response[1].body.error[2] = req[r].raised[1]
        /\ (req[r].pc = "done" /\ req[r].response[1].status # 200) =>
              /\ req[r].response[1].status \in {400, 500}
              /\ DOMAIN req[r].response[1].body = {"error"}
        /\ NoDuplicates(req[r].steps)

\* a single-image request failed in the detector and a batch failed too
C9_Witness ==
    \E r1, r2 \in Reqs :
        /\ req[r1].kind = "detect" /\ req[r1].raised = <<"PredictError">>
        /\ req[r1].response[1].status = 500
        /\ req[r2].kind = "batch" /\ req[r2].raised # <<>>

(* C10: while the model handle is not loaded, every single-image or batch  *)
(* request is answered 500 "Model not loaded" before any other step: no    *)
(* identifier is generated, no file staged, the detector not invoked, and  *)
(* the upload and results directories stay as they were.                   *)
C10_ModelNotLoaded ==
    model = "None" =>
        /\ nextId = 0
        /\ DOMAIN upload_folder = {}
        /\ DOMAIN results_folder = {}
        /\ \A r \in Reqs :
            (req[r].kind \in {"detect", "batch"})
                => /\ req[r].pc = "done"
                   /\ req[r].response = <<NotLoaded500>>
                   /\ req[r].steps = <<>>
                   /\ req[r].uuid = -1

\* without a model, a single-image request with an image and a batch with
\* files were both refused
C10_Witness ==
    \E r1, r2 \in Reqs :
        /\ model = "None"
        /\ req[r1].kind = "detect" /\ req[r1].has_image /\ req[r1].filename # ""
        /\ req[r1].response = <<NotLoaded500>>
        /\ req[r2].kind = "batch" /\ req[r2].files # <<>>
        /\ req[r2].response = <<NotLoaded500>>

====
